---- MODULE Spec2Model ----
(***************************************************************************)
(* deepnog/data/dataset.py: the sharded record iterator (ProteinIterator), *)
(* the shuffle buffer stage (ShuffledProteinDataset.__iter__), the         *)
(* vocabulary builder (gen_amino_acid_vocab) and the batch collator        *)
(* (collate_sequences).                                                    *)
(***************************************************************************)
EXTENDS Integers, Sequences, FiniteSets, TLC

\* ------------------------------------------------------------------ bounds
MaxLen == 5          \* longest record stream
MaxWorkers == 3      \* largest num_workers
MaxCapacity == 3     \* largest configured buffer_size
MaxAlphabet == 3     \* longest alphabet handed to gen_amino_acid_vocab
MaxResidues == 2     \* longest residue string encoded in the vocabulary runs
MaxBatch == 2        \* largest batch handed to collate_sequences
MaxSeqLen == 5       \* longest encoded sequence in a batch
MaxMinLength == 4    \* largest min_length handed to collate_sequences

\* --------------------------------------------------------------- constants
UNINITIALIZED_POS == -999

\* Python's None; optional values are None or a one-element tuple <<v>>.
None == <<>>
Some(v) == <<v>>

Min(a, b) == IF a < b THEN a ELSE b
Max(a, b) == IF a > b THEN a ELSE b

\* ------------------------------------------------------------ characters
UPPERCASE == <<"A","B","C","D","E","F","G","H","I","J","K","L","M",
               "N","O","P","Q","R","S","T","U","V","W","X","Y","Z">>
LOWERCASE == <<"a","b","c","d","e","f","g","h","i","j","k","l","m",
               "n","o","p","q","r","s","t","u","v","w","x","y","z">>

\* str.upper() / str.lower() on one character
upper(c) ==
    IF \E i \in DOMAIN LOWERCASE : LOWERCASE[i] = c
    THEN UPPERCASE[CHOOSE i \in DOMAIN LOWERCASE : LOWERCASE[i] = c]
    ELSE c
lower(c) ==
    IF \E i \in DOMAIN UPPERCASE : UPPERCASE[i] = c
    THEN LOWERCASE[CHOOSE i \in DOMAIN UPPERCASE : UPPERCASE[i] = c]
    ELSE c

\* 'ACDEFGHIKLMNPQRSTVWYBXZJUO'
EXTENDED_IUPAC_PROTEIN_ALPHABET ==
    <<"A","C","D","E","F","G","H","I","K","L","M","N","P",
      "Q","R","S","T","V","W","Y","B","X","Z","J","U","O">>

\* ------------------------------------------------------- vocabulary builder
\* dict.get(key, default)
dict_get(d, key, default) == IF key \in DOMAIN d THEN d[key] ELSE default

\* d[key] = value
dict_set(d, key, value) == (key :> value) @@ d

\* the keys written for one alphabet letter: [aa.upper(), aa.lower()]
vocab_keys(aa) == <<upper(aa), lower(aa)>>

vocab_code_zero_based(i) == i
\* the code written for the letter enumerate() numbers i
vocab_code(i) == i + 1

\* aminoacid_to_ix after the first n rounds of the loop over enumerate(alphabet)
vocab_loop(alphabet, n) ==
    LET after[r \in 0..n] ==
            IF r = 0 THEN <<>>
            ELSE LET i == r - 1
                     keys == vocab_keys(alphabet[i + 1])
                 IN dict_set(dict_set(after[r - 1], keys[1], vocab_code(i)),
                             keys[2], vocab_code(i))
    IN after[n]

\* alphabet is None or Some(the alphabet string)
gen_amino_acid_vocab(alphabet) ==
    LET letters == IF alphabet = None THEN EXTENDED_IUPAC_PROTEIN_ALPHABET ELSE alphabet[1]
    IN vocab_loop(letters, Len(letters))

\* encoded = [self.vocab.get(c, 0) for c in next_seq.seq]
encode(v, residues) == [j \in 1..Len(residues) |-> dict_get(v, residues[j], 0)]

\* ------------------------------------------------------------------- state
VARIABLES
    \* the dataset and its configuration
    stream,        \* the records the source parser yields, in file order
    labels,        \* None, or the label table (protein_id -> label_num)
    num_workers,   \* worker_info.num_workers, 1 without worker information
    worker_info,   \* FALSE when get_worker_info() returns None
    active,        \* the worker ids whose iterator runs
    n_skipped,     \* the dataset's SynchronizedCounter
    \* one ProteinIterator per worker
    cursor,        \* records consumed from the worker's own source iterator
    pos,           \* self.pos
    own_skipped,   \* self.n_skipped when it was constructed with the int 0
    closes,        \* calls of self.iterator.close()
    returned,      \* the records __next__ has returned
    stops,         \* the StopIterations __next__ has raised
    skip_log,      \* the positions at which self.n_skipped was incremented
    \* ShuffledProteinDataset.__iter__ (one generator)
    capacity,      \* the buffer_size argument of the constructor
    sh_pc,         \* where the generator stands
    buffer_size,   \* self.buffer_size
    shufbuf, item, evict_idx,
    evictions,     \* the values randint has returned, in order
    yielded,       \* the records the generator has yielded
    \* the pure functions' runs
    in_alphabet,   \* the alphabet argument of gen_amino_acid_vocab
    vocab,         \* the vocabulary it returned
    in_residues,   \* next_seq.seq of the record encoded with it
    encoded, fn_pc,
    batch, zero_padding, min_length, random_padding, collated

cfgVars == <<stream, labels, num_workers, worker_info, active>>
itVars == <<n_skipped, cursor, pos, own_skipped, closes, returned, stops, skip_log>>
shVars == <<capacity, sh_pc, buffer_size, shufbuf, item, evict_idx, evictions, yielded>>
vocVars == <<in_alphabet, vocab, in_residues, encoded>>
colVars == <<batch, zero_padding, min_length, random_padding, collated>>
vars == <<cfgVars, itVars, shVars, vocVars, colVars, fn_pc>>

\* -------------------------------------------------------------- the source
RECURSIVE SeqsUpTo(_, _)
SeqsUpTo(S, n) ==
    IF n = 0 THEN {<<>>}
    ELSE LET shorter == SeqsUpTo(S, n - 1)
         IN shorter \cup {Append(s, x) : s \in {t \in shorter : Len(t) = n - 1}, x \in S}

\* records as the parser yields them: (id, seq)
SeqRecord(id, seq) == [id |-> id, seq |-> seq]
RecordPool == {SeqRecord("", <<"A">>),
               SeqRecord("p", <<"A", "c">>),
               SeqRecord("q", <<"*", "D", "a">>)}
ShufflePool == {SeqRecord("", <<"A">>), SeqRecord("p", <<"A", "c">>)}
LabelTables == {None,
                [k \in {"p"} |-> 0],
                [k \in {"", "q"} |-> 1]}

\* self.vocab of the dataset, handed to every iterator as aa_vocab
self_vocab == gen_amino_acid_vocab(Some(EXTENDED_IUPAC_PROTEIN_ALPHABET))

\* _consume(self.iterator, n): advance n records, or to the end
consume(c, n) == Min(c + n, Len(stream))

has_labels == labels # None
label_from_id == IF labels = None THEN [k \in {} |-> 0] ELSE labels
\* self.label_from_id.get(sequence_id)
label_get(sequence_id) ==
    IF sequence_id \in DOMAIN label_from_id THEN Some(label_from_id[sequence_id]) ELSE None

is_skipped_id_only(sequence_id, label) == sequence_id = ""
is_skipped_falsy_label(sequence_id, label) ==
    sequence_id = "" \/ (labels # None /\ (label = None \/ label = Some(0)))
\* the while condition of __next__
is_skipped(sequence_id, label) == sequence_id = "" \/ (has_labels /\ label = None)

\* self.start and self.step
start_of(worker_id) == worker_id
step_of(nw) == nw - 1

retry_consume_none(c, step) == c
\* the cursor after the _consume of the while body
retry_consume(c, step) == consume(c, step)

sequence_tuple(index, id, string, enc, label) ==
    [index |-> index, id |-> id, string |-> string, encoded |-> enc, label |-> label]

\* next(self.iterator) and the while loop around it: c records are consumed,
\* p is self.pos, log the positions counted as skipped so far
RECURSIVE pull_loop(_, _, _, _)
pull_loop(c, p, log, step) ==
    IF c >= Len(stream)
    THEN [stop |-> TRUE, cursor |-> c, pos |-> p, log |-> log, sequence |-> None]
    ELSE LET next_seq == stream[c + 1]
             sequence_id == next_seq.id
             label == label_get(sequence_id)
         IN IF is_skipped(sequence_id, label)
            THEN pull_loop(retry_consume(c + 1, step), p + step + 1, Append(log, p), step)
            ELSE [stop |-> FALSE, cursor |-> c + 1, pos |-> p, log |-> log,
                  sequence |-> Some(sequence_tuple(p, sequence_id, next_seq.seq,
                                                   encode(self_vocab, next_seq.seq), label))]

ProteinIterator_next_zero_based(w) ==
    LET step == step_of(num_workers)
        first == pos[w] = UNINITIALIZED_POS
        c0 == IF first THEN consume(cursor[w], start_of(w)) ELSE consume(cursor[w], step)
        p0 == IF first THEN start_of(w) ELSE pos[w] + step + 1
    IN pull_loop(c0, p0, <<>>, step)
\* ProteinIterator.__next__ of worker w, as a result record
ProteinIterator_next(w) ==
    LET step == step_of(num_workers)
        first == pos[w] = UNINITIALIZED_POS
        c0 == IF first THEN consume(cursor[w], start_of(w)) ELSE consume(cursor[w], step)
        p0 == IF first THEN start_of(w) + 1 ELSE pos[w] + step + 1
    IN pull_loop(c0, p0, <<>>, step)

\* SynchronizedCounter: self.n_skipped += 1, n times, each an atomic increment
SynchronizedCounter_add(value, n) == value + n

ApplyNext_shared_source(w, r) ==
    /\ cursor' = [v \in DOMAIN cursor |-> r.cursor]
    /\ pos' = [pos EXCEPT ![w] = r.pos]
    /\ skip_log' = [skip_log EXCEPT ![w] = @ \o r.log]
    /\ IF worker_info
       THEN /\ n_skipped' = SynchronizedCounter_add(n_skipped, Len(r.log))
            /\ UNCHANGED own_skipped
       ELSE /\ own_skipped' = [own_skipped EXCEPT ![w] = @ + Len(r.log)]
            /\ UNCHANGED n_skipped
    /\ closes' = [closes EXCEPT ![w] = IF r.stop THEN @ + 1 ELSE @]
    /\ stops' = [stops EXCEPT ![w] = IF r.stop THEN @ + 1 ELSE @]
    /\ returned' = [returned EXCEPT ![w] = IF r.stop THEN @ ELSE Append(@, r.sequence[1])]
\* the state __next__ of worker w leaves behind, r its result record
ApplyNext(w, r) ==
    /\ cursor' = [cursor EXCEPT ![w] = r.cursor]
    /\ pos' = [pos EXCEPT ![w] = r.pos]
    /\ skip_log' = [skip_log EXCEPT ![w] = @ \o r.log]
    /\ IF worker_info
       THEN /\ n_skipped' = SynchronizedCounter_add(n_skipped, Len(r.log))
            /\ UNCHANGED own_skipped
       ELSE /\ own_skipped' = [own_skipped EXCEPT ![w] = @ + Len(r.log)]
            /\ UNCHANGED n_skipped
    /\ closes' = [closes EXCEPT ![w] = IF r.stop THEN @ + 1 ELSE @]
    /\ stops' = [stops EXCEPT ![w] = IF r.stop THEN @ + 1 ELSE @]
    /\ returned' = [returned EXCEPT ![w] = IF r.stop THEN @ ELSE Append(@, r.sequence[1])]

Workers == 0..(num_workers - 1)

\* the iterator state after ProteinIterator.__init__
InitIterators ==
    /\ n_skipped = 0
    /\ cursor = [w \in Workers |-> 0]
    /\ pos = [w \in Workers |-> UNINITIALIZED_POS]
    /\ own_skipped = [w \in Workers |-> 0]
    /\ closes = [w \in Workers |-> 0]
    /\ returned = [w \in Workers |-> <<>>]
    /\ stops = [w \in Workers |-> 0]
    /\ skip_log = [w \in Workers |-> <<>>]

NoShuffle ==
    /\ capacity = 0 /\ sh_pc = "off" /\ buffer_size = 0 /\ shufbuf = <<>>
    /\ item = None /\ evict_idx = 0 /\ evictions = <<>> /\ yielded = <<>>
NoVocabRun == in_alphabet = None /\ vocab = None /\ in_residues = <<>> /\ encoded = <<>>
NoCollate ==
    /\ batch = None /\ zero_padding = TRUE /\ min_length = 0
    /\ random_padding = FALSE /\ collated = None

\* ProteinDataset.__iter__: W workers, or one process without worker information
InitDataset(pool) ==
    /\ stream \in SeqsUpTo(pool, MaxLen)
    /\ labels \in LabelTables
    /\ worker_info \in BOOLEAN
    /\ num_workers \in (IF worker_info THEN 1..MaxWorkers ELSE {1})

Init ==
    /\ InitDataset(RecordPool)
    /\ active = Workers
    /\ InitIterators
    /\ NoShuffle /\ NoVocabRun /\ NoCollate /\ fn_pc = "off"

\* the consumer of worker w's iterator asks for the next record (a for loop:
\* it stops asking at the first StopIteration)
Next_(w) ==
    /\ sh_pc = "off"
    /\ stops[w] = 0
    /\ ApplyNext(w, ProteinIterator_next(w))
    /\ UNCHANGED <<cfgVars, shVars, vocVars, colVars, fn_pc>>

Next == \E w \in active : Next_(w)

Spec == Init /\ [][Next]_vars

\* ------------------------------------------ ShuffledProteinDataset.__iter__
\* the worker whose generator runs
sh_w == CHOOSE w \in active : TRUE

randint_inclusive(low, high) == low..high
\* np.random.randint(0, self.buffer_size - 1): the values it can return; none
\* when low >= high, where it raises ValueError
randint(low, high) == low..(high - 1)

set_slot_last(buf, idx, it) == [buf EXCEPT ![Len(buf)] = it]
\* shufbuf[evict_idx] = item, evict_idx 0-based
set_slot(buf, idx, it) == [buf EXCEPT ![idx + 1] = it]

range_done_late(i, n) == i > n
\* for i in range(self.buffer_size): the loop ends when i reaches the bound
range_done(i, n) == i >= n

\* for i in range(self.buffer_size): shufbuf.append(next(dataset_iter)), one
\* iteration; StopIteration sets self.buffer_size = len(shufbuf)
ShuffleFill ==
    /\ sh_pc = "fill"
    /\ LET r == ProteinIterator_next(sh_w) IN
       /\ ApplyNext(sh_w, r)
       /\ IF r.stop
          THEN /\ buffer_size' = Len(shufbuf)
               /\ sh_pc' = "steady"
               /\ UNCHANGED shufbuf
          ELSE /\ shufbuf' = Append(shufbuf, r.sequence[1])
               /\ sh_pc' = IF range_done(Len(shufbuf) + 1, buffer_size)
                           THEN "steady" ELSE "fill"
               /\ UNCHANGED buffer_size
    /\ UNCHANGED <<cfgVars, capacity, item, evict_idx, evictions, yielded, vocVars,
                   colVars, fn_pc>>

\* while len(shufbuf) > 0: yield shufbuf.pop(), up to the yield or to the
\* return of the generator
DrainNext ==
    IF Len(shufbuf) > 0
    THEN /\ yielded' = Append(yielded, shufbuf[Len(shufbuf)])
         /\ shufbuf' = SubSeq(shufbuf, 1, Len(shufbuf) - 1)
         /\ sh_pc' = "drain"
    ELSE /\ sh_pc' = "done"
         /\ UNCHANGED <<yielded, shufbuf>>

\* item = next(dataset_iter); evict_idx = randint(...); yield shufbuf[evict_idx];
\* on StopIteration break, into the drain loop
ShuffleSteady ==
    /\ sh_pc = "steady"
    /\ LET r == ProteinIterator_next(sh_w) IN
       /\ ApplyNext(sh_w, r)
       /\ IF r.stop
          THEN /\ DrainNext
               /\ UNCHANGED <<item, evict_idx, evictions>>
          ELSE /\ item' = r.sequence
               /\ IF randint(0, buffer_size - 1) = {}
                  THEN /\ sh_pc' = "ValueError"
                       /\ UNCHANGED <<evict_idx, evictions, yielded>>
                  ELSE /\ \E e \in randint(0, buffer_size - 1) :
                             /\ evict_idx' = e
                             /\ evictions' = Append(evictions, e)
                             /\ yielded' = Append(yielded, shufbuf[e + 1])
                       /\ sh_pc' = "yield"
               /\ UNCHANGED shufbuf
    /\ UNCHANGED <<cfgVars, capacity, buffer_size, vocVars, colVars, fn_pc>>

\* the consumer resumes the generator at the yield of the steady state:
\* shufbuf[evict_idx] = item
ShuffleResume ==
    /\ sh_pc = "yield"
    /\ shufbuf' = set_slot(shufbuf, evict_idx, item[1])
    /\ item' = None
    /\ sh_pc' = "steady"
    /\ UNCHANGED <<cfgVars, itVars, capacity, buffer_size, evict_idx, evictions,
                   yielded, vocVars, colVars, fn_pc>>

\* the consumer resumes the generator at the yield of the drain loop
ShuffleDrain ==
    /\ sh_pc = "drain"
    /\ DrainNext
    /\ UNCHANGED <<cfgVars, itVars, capacity, buffer_size, item, evict_idx,
                   evictions, vocVars, colVars, fn_pc>>

GeneratorExit_closing(n) == n + 1
\* except GeneratorExit: pass; the calls of close() on the underlying
\* iterator after the handler, n of them before
GeneratorExit_pass(n) == n

\* the consumer closes the generator where it is suspended, at one of its two
\* yields: GeneratorExit is raised there, caught, and the generator returns
ShuffleCancel ==
    /\ sh_pc \in {"yield", "drain"}
    /\ sh_pc' = "cancelled"
    /\ closes' = [closes EXCEPT ![sh_w] = GeneratorExit_pass(@)]
    /\ UNCHANGED <<cfgVars, n_skipped, cursor, pos, own_skipped, returned, stops,
                   skip_log, capacity, buffer_size, shufbuf, item, evict_idx,
                   evictions, yielded, vocVars, colVars, fn_pc>>

\* ShuffledProteinDataset(..., buffer_size = capacity).__iter__() in worker w
\* of num_workers, or in one process without worker information
InitShuffle ==
    /\ InitDataset(ShufflePool)
    /\ \E w \in Workers : active = {w}
    /\ InitIterators
    /\ capacity \in 1..MaxCapacity
    /\ buffer_size = capacity
    /\ sh_pc = "fill" /\ shufbuf = <<>> /\ item = None /\ evict_idx = 0
    /\ evictions = <<>> /\ yielded = <<>>
    /\ NoVocabRun /\ NoCollate /\ fn_pc = "off"

NextShuffle ==
    ShuffleFill \/ ShuffleSteady \/ ShuffleResume \/ ShuffleDrain \/ ShuffleCancel

SpecShuffle == InitShuffle /\ [][NextShuffle]_vars

\* ------------------------------------------------ runs of the vocabulary
\* the characters alphabets and residue strings are drawn from
AlphabetChars == {"A", "a", "B", "b", "*"}
ResidueChars == AlphabetChars \cup {"C"}

InitVocab ==
    /\ in_alphabet \in {Some(a) : a \in SeqsUpTo(AlphabetChars, MaxAlphabet)} \cup {None}
    /\ vocab = None /\ in_residues = <<>> /\ encoded = <<>>
    /\ fn_pc = "call"
    /\ stream = <<>> /\ labels = None /\ worker_info = FALSE /\ num_workers = 1
    /\ active = {}
    /\ InitIterators /\ NoShuffle /\ NoCollate

\* vocab = gen_amino_acid_vocab(alphabet)
GenVocab ==
    /\ fn_pc = "call"
    /\ vocab' = gen_amino_acid_vocab(in_alphabet)
    /\ fn_pc' = "vocab"
    /\ UNCHANGED <<cfgVars, itVars, shVars, in_alphabet, in_residues, encoded, colVars>>

\* encoded = [self.vocab.get(c, 0) for c in next_seq.seq]
Encode ==
    /\ fn_pc = "vocab"
    /\ \E seq \in SeqsUpTo(ResidueChars, MaxResidues) :
          /\ in_residues' = seq
          /\ encoded' = encode(vocab, seq)
    /\ fn_pc' = "encoded"
    /\ UNCHANGED <<cfgVars, itVars, shVars, in_alphabet, vocab, colVars>>

NextVocab == GenVocab \/ Encode

SpecVocab == InitVocab /\ [][NextVocab]_vars

\* ------------------------------------------------------ collate_sequences
\* np.random.choice(n_zeros + 1), or 0 without random padding
start_choices(sequence_len, max_len, rp) ==
    IF rp /\ sequence_len < max_len THEN 0..(max_len - sequence_len) ELSE {0}

\* if not isinstance(batch, list): batch = [batch]; the argument is a list
\* (value its elements) or a single sequence_tuple (value[1])
as_list(b) == IF b.is_list THEN b.value ELSE <<b.value[1]>>

max_len_ignoring_min(b, i, max_len) ==
    LET lens == {Len(b[j].encoded) : j \in 1..Len(b)}
    IN IF lens = {} THEN 0 ELSE CHOOSE m \in lens : \A l \in lens : l <= m
\* the loop that finds the longest sequence: records i+1.. of b are still to
\* be seen and max_len is the longest so far
RECURSIVE max_len_loop(_, _, _)
max_len_loop(b, i, max_len) ==
    IF i >= Len(b) THEN max_len
    ELSE LET sequence_len == Len(b[i + 1].encoded)
         IN max_len_loop(b, i + 1, IF sequence_len > max_len THEN sequence_len ELSE max_len)

\* one row of np.zeros((n_data, max_len)) after sequences[i, start:end] = sequence
padded_row(sequence, start, max_len) ==
    [j \in 1..max_len |->
        IF j > start /\ j <= start + Len(sequence) THEN sequence[j - start] ELSE 0]

Raised(e) == [raised |-> e, indices |-> <<>>, ids |-> <<>>, sequences |-> <<>>,
              labels |-> None]

default_collate_any(arr) == [raised |-> "", value |-> arr]
\* torch's default_collate on an array: it starts with elem = batch[0], an
\* IndexError on an array without rows; otherwise the rows as a tensor
default_collate(arr) ==
    IF Len(arr) = 0 THEN [raised |-> "IndexError", value |-> <<>>]
    ELSE [raised |-> "", value |-> arr]

collate_labels_partial(b) ==
    LET kept == SelectSeq(b, LAMBDA r : r.label # None)
    IN Some([j \in 1..Len(kept) |-> kept[j].label[1]])
\* labels: np.array([b.label for b in batch], dtype=np.int) raises TypeError
\* on a None label, which makes labels None
collate_labels(b) ==
    IF \E j \in 1..Len(b) : b[j].label = None THEN None
    ELSE LET made == default_collate([j \in 1..Len(b) |-> b[j].label[1]])
         IN Some(made.value)

collate_sequences_unpadded(input, zp, ml, starts) ==
    LET b == as_list(input)
        max_len == max_len_loop(b, 0, ml)
        n_data == Len(b)
        sequences == [i \in 1..n_data |->
                         IF zp THEN padded_row(b[i].encoded, starts[i], max_len)
                         ELSE b[i].encoded]
        made == default_collate(sequences)
    IN IF made.raised # "" THEN Raised(made.raised)
       ELSE [raised |-> "",
             indices |-> [i \in 1..n_data |-> b[i].index],
             ids |-> [i \in 1..n_data |-> b[i].id],
             sequences |-> made.value,
             labels |-> collate_labels(b)]
\* collate_sequences(batch, zero_padding, min_length, random_padding), starts
\* the values np.random.choice returned
collate_sequences(input, zp, ml, starts) ==
    LET b == as_list(input)
        max_len == max_len_loop(b, 0, ml)
        n_data == Len(b)
        sequences == [i \in 1..n_data |-> padded_row(b[i].encoded, starts[i], max_len)]
        made == default_collate(sequences)
    IN IF ~zp THEN Raised("NotImplementedError")
       ELSE IF made.raised # "" THEN Raised(made.raised)
       ELSE [raised |-> "",
             indices |-> [i \in 1..n_data |-> b[i].index],
             ids |-> [i \in 1..n_data |-> b[i].id],
             sequences |-> made.value,
             labels |-> collate_labels(b)]

\* the encoded sequence of length n the batches are made of
Enc(n) == [j \in 1..n |-> j % 3]
CollatePool ==
    {sequence_tuple(n + 1, IF n % 2 = 0 THEN "p" ELSE "q", "", Enc(n),
                    IF n % 3 = 0 THEN None ELSE Some(n % 2)) : n \in 0..MaxSeqLen}
BatchInputs ==
    {[is_list |-> TRUE, value |-> v] : v \in SeqsUpTo(CollatePool, MaxBatch)}
    \cup {[is_list |-> FALSE, value |-> <<r>>] : r \in CollatePool}

InitCollate ==
    /\ batch \in BatchInputs
    /\ zero_padding \in BOOLEAN
    /\ min_length \in 0..MaxMinLength
    /\ random_padding \in BOOLEAN
    /\ collated = None
    /\ fn_pc = "call"
    /\ stream = <<>> /\ labels = None /\ worker_info = FALSE /\ num_workers = 1
    /\ active = {}
    /\ InitIterators /\ NoShuffle /\ NoVocabRun

Collate ==
    /\ fn_pc = "call"
    /\ LET b == as_list(batch)
           max_len == max_len_loop(b, 0, min_length)
       IN \E starts \in [1..Len(b) -> 0..max_len] :
             /\ \A i \in 1..Len(b) :
                   starts[i] \in start_choices(Len(b[i].encoded), max_len, random_padding)
             /\ collated' = collate_sequences(batch, zero_padding, min_length, starts)
    /\ fn_pc' = "collated"
    /\ UNCHANGED <<cfgVars, itVars, shVars, vocVars, batch, zero_padding, min_length,
                   random_padding>>

NextCollate == Collate

SpecCollate == InitCollate /\ [][NextCollate]_vars

\* ------------------------------------------------- what the claims speak of
\* a record of the raw stream is invalid: empty id, or label required but missing
Invalid(rec) == rec.id = "" \/ (labels # None /\ rec.id \notin DOMAIN labels)
InvalidPositions == {p \in 1..Len(stream) : Invalid(stream[p])}
ValidPositions == {p \in 1..Len(stream) : ~Invalid(stream[p])}
\* the 1-based stream positions of worker w's shard that hold a valid record
ShardValid(w) ==
    SelectSeq([p \in 1..Len(stream) |-> p],
              LAMBDA p : (p - 1) % num_workers = w /\ ~Invalid(stream[p]))
IndexSeq(w) == [j \in 1..Len(returned[w]) |-> returned[w][j].index]
IndexSet(w) == {returned[w][j].index : j \in 1..Len(returned[w])}
AllDone == sh_pc = "off" /\ fn_pc = "off" /\ \A w \in active : stops[w] >= 1
RECURSIVE SumOver(_, _)
SumOver(f, S) ==
    IF S = {} THEN 0
    ELSE LET x == CHOOSE y \in S : TRUE IN f[x] + SumOver(f, S \ {x})
SkipTotal == n_skipped + SumOver(own_skipped, Workers)
AllLogs == UNION {{skip_log[w][j] : j \in 1..Len(skip_log[w])} : w \in Workers}

\* C1: once every worker has consumed its iterator to the end, the index sets
\* of the workers are pairwise disjoint, no worker repeats an index, and their
\* union is the set of indices of the valid records of the stream (what the
\* runs with num_workers = 1 emit); with 5 valid records and 2 workers,
\* worker 0 emits the records at positions 0, 2, 4 and worker 1 those at 1, 3.
C1_ShardsPartition ==
    AllDone =>
        /\ \A v \in Workers : \A w \in Workers : v # w => IndexSet(v) \cap IndexSet(w) = {}
        /\ \A w \in Workers : Cardinality(IndexSet(w)) = Len(returned[w])
        /\ UNION {IndexSet(w) : w \in Workers} = ValidPositions
        /\ (num_workers = 2 /\ Len(stream) = 5 /\ InvalidPositions = {}) =>
              /\ [j \in 1..Len(returned[0]) |-> returned[0][j].index - 1] = <<0, 2, 4>>
              /\ [j \in 1..Len(returned[1]) |-> returned[1][j].index - 1] = <<1, 3>>
              /\ \A w \in Workers : \A j \in 1..Len(returned[w]) :
                    returned[w][j].id = stream[returned[w][j].index].id

C1_Witness ==
    /\ AllDone /\ num_workers >= 2
    /\ InvalidPositions # {}
    /\ \A w \in Workers : Len(returned[w]) >= 1

\* C2: once every worker has consumed its iterator to the end, the skip
\* counter increments of all workers add up to the number of invalid records
\* of the raw stream; each invalid record was counted once, by one worker, and
\* nothing else was counted.
C2_SkipsCountInvalid ==
    AllDone =>
        /\ SkipTotal = Cardinality(InvalidPositions)
        /\ AllLogs = InvalidPositions
        /\ SumOver([w \in Workers |-> Len(skip_log[w])], Workers) = Cardinality(AllLogs)

C2_Witness ==
    /\ AllDone /\ num_workers >= 2
    /\ \E p \in InvalidPositions : stream[p].id = ""
    /\ \E p \in InvalidPositions : stream[p].id # ""
    /\ \A w \in Workers : Len(skip_log[w]) >= 1
    /\ \E p \in 1..Len(stream) : p - 1 < num_workers - 1 /\ Invalid(stream[p])

\* C6: every record __next__ has returned has a non-empty id and the label
\* found for that id (no label when there is no label table); the records a
\* worker got are the valid records of its shard, in order, none left out,
\* and a request that meets invalid records ends in the next valid record of
\* the shard or in StopIteration.
C6_OnlyValidReturned ==
    \A w \in active :
        /\ \A j \in 1..Len(returned[w]) :
              LET r == returned[w][j] IN
              /\ r.id # ""
              /\ r.id = stream[r.index].id
              /\ IF labels = None THEN r.label = None
                 ELSE r.id \in DOMAIN labels /\ r.label = Some(labels[r.id])
        /\ Len(returned[w]) <= Len(ShardValid(w))
        /\ IndexSeq(w) = SubSeq(ShardValid(w), 1, Len(returned[w]))
        /\ stops[w] >= 1 => Len(returned[w]) = Len(ShardValid(w))
        /\ (stops[w] = 0 /\ pos[w] # UNINITIALIZED_POS) => Len(returned[w]) >= 1

C6_Witness ==
    /\ sh_pc = "off" /\ fn_pc = "off"
    /\ labels # None
    /\ \E w \in active :
          /\ Len(returned[w]) >= 2
          /\ Len(skip_log[w]) >= 2
          /\ returned[w][2].index > skip_log[w][2]
          /\ returned[w][2].label = Some(0)

\* the shuffle stage has ended: it returned, or an exception left it
ShuffleEnded == sh_pc \in {"done", "ValueError"}
Elements(q) == {q[j] : j \in 1..Len(q)}

\* C3: a shuffle stage run consumed to its end ends normally, and by then it
\* has yielded each record pulled from the underlying iterator exactly once.
C3_ShuffleKeepsMultiset ==
    ShuffleEnded =>
        /\ sh_pc = "done"
        /\ Len(yielded) = Len(returned[sh_w])
        /\ Elements(yielded) = Elements(returned[sh_w])
        /\ Cardinality(Elements(yielded)) = Len(yielded)

\* C4: with capacity 1 the shuffle stage, consumed to its end, has yielded the
\* records in the order in which the underlying iterator returned them.
C4_CapacityOneKeepsOrder ==
    (capacity = 1 /\ ShuffleEnded) => yielded = returned[sh_w]

\* C5: in every state of an iterator's life, directly consumed or under the
\* shuffle stage, close was called once if the source has signalled its end
\* and not at all before; by then every valid record of the shard is out.
C5_ClosedExactlyOnce ==
    \A w \in active :
        /\ closes[w] = (IF stops[w] >= 1 THEN 1 ELSE 0)
        /\ stops[w] >= 1 => Len(returned[w]) = Len(ShardValid(w))

\* the alphabet gen_amino_acid_vocab works on
TheAlphabet == IF in_alphabet = None THEN EXTENDED_IUPAC_PROTEIN_ALPHABET ELSE in_alphabet[1]
\* two places of the alphabet hold the same letter after case folding
FoldedRepeat ==
    \E i \in 1..Len(TheAlphabet) : \E j \in 1..Len(TheAlphabet) :
        i # j /\ lower(TheAlphabet[i]) = lower(TheAlphabet[j])
VocabReturned == fn_pc \in {"vocab", "encoded"}
InAlphabet(c) == \E i \in 1..Len(TheAlphabet) : c \in {upper(TheAlphabet[i]), lower(TheAlphabet[i])}

\* C7: gen_amino_acid_vocab returns no mapping for an alphabet in which a
\* letter repeats after case folding.
C7_RepeatedLetterFails == FoldedRepeat => ~VocabReturned

\* C9: for an alphabet of pairwise distinct letters the vocabulary maps both
\* cases of the i-th letter (0-based) to i+1, the letters' codes are a
\* bijection onto 1..|alphabet|, 0 is no value of the mapping, and encoding
\* maps the symbols outside the alphabet to 0 and the others to their code;
\* alphabet "AB" encodes the residues "AB" as [1, 2].
C9_VocabularyCodes ==
    (VocabReturned /\ ~FoldedRepeat) =>
        /\ \A i \in 0..(Len(TheAlphabet) - 1) :
              /\ upper(TheAlphabet[i + 1]) \in DOMAIN vocab
              /\ lower(TheAlphabet[i + 1]) \in DOMAIN vocab
              /\ vocab[upper(TheAlphabet[i + 1])] = i + 1
              /\ vocab[lower(TheAlphabet[i + 1])] = i + 1
        /\ {vocab[k] : k \in DOMAIN vocab} = 1..Len(TheAlphabet)
        /\ \A i \in 1..Len(TheAlphabet) : \A j \in 1..Len(TheAlphabet) :
              i # j => vocab[TheAlphabet[i]] # vocab[TheAlphabet[j]]
        /\ \A k \in DOMAIN vocab : vocab[k] # 0 /\ InAlphabet(k)
        /\ fn_pc = "encoded" =>
              /\ Len(encoded) = Len(in_residues)
              /\ \A j \in 1..Len(in_residues) :
                    IF InAlphabet(in_residues[j])
                    THEN encoded[j] = vocab[in_residues[j]]
                    ELSE encoded[j] = 0
              /\ (in_alphabet = Some(<<"A", "B">>) /\ in_residues = <<"A", "B">>) =>
                    encoded = <<1, 2>>

C9_Witness ==
    /\ fn_pc = "encoded" /\ in_alphabet # None /\ ~FoldedRepeat
    /\ Len(TheAlphabet) >= 2
    /\ \E i \in 1..Len(TheAlphabet) : upper(TheAlphabet[i]) # TheAlphabet[i]
    /\ Len(in_residues) = 2
    /\ InAlphabet(in_residues[1]) /\ in_residues[1] \notin Elements(TheAlphabet)
    /\ ~InAlphabet(in_residues[2])
    /\ encoded[1] = 2 /\ encoded[2] = 0

\* the batch as a list, and what collate_sequences was called with
BatchList == IF batch.is_list THEN batch.value ELSE <<batch.value[1]>>
Collated == fn_pc = "collated"
Longest(b) == IF b = <<>> THEN 0
              ELSE CHOOSE m \in {Len(b[j].encoded) : j \in 1..Len(b)} :
                      \A j \in 1..Len(b) : Len(b[j].encoded) <= m

C10_ZeroPaddedRows ==
    (Collated /\ zero_padding /\ ~random_padding /\ Len(BatchList) >= 1) =>
        LET n == Len(BatchList)
            width == Max(min_length, Longest(BatchList))
        IN /\ collated.raised = ""
           /\ Len(collated.sequences) = n
           /\ Len(collated.indices) = n /\ Len(collated.ids) = n
           /\ \A i \in 1..n :
                 LET e == BatchList[i].encoded
                     row == collated.sequences[i]
                 IN /\ Len(row) = width
                    /\ SubSeq(row, 1, Len(e)) = e
                    /\ \A j \in (Len(e) + 1)..width : row[j] = 0
                    /\ collated.indices[i] = BatchList[i].index
                    /\ collated.ids[i] = BatchList[i].id
           /\ (n = 2 /\ min_length = 4 /\ Len(BatchList[1].encoded) = 3
                /\ Len(BatchList[2].encoded) = 5) =>
                 /\ Len(collated.sequences[1]) = 5 /\ Len(collated.sequences[2]) = 5
                 /\ collated.sequences[1] = BatchList[1].encoded \o <<0, 0>>
                 /\ collated.sequences[2] = BatchList[2].encoded

C10_Witness ==
    /\ Collated /\ zero_padding /\ ~random_padding
    /\ Len(BatchList) = 2 /\ min_length = 4
    /\ Len(BatchList[1].encoded) = 3 /\ Len(BatchList[2].encoded) = 5
    /\ collated.raised = "" /\ collated.sequences[1] = <<1, 2, 0, 0, 0>>

\* C11: a returned batch has as labels the labels of its records in input
\* order when every record carries a label, and no labels at all as soon as
\* one record carries none; never the labels of only some of the records.
C11_LabelsAllOrNone ==
    (Collated /\ collated.raised = "") =>
        IF \A i \in 1..Len(BatchList) : BatchList[i].label # None
        THEN /\ collated.labels # None
             /\ Len(collated.labels[1]) = Len(BatchList)
             /\ \A i \in 1..Len(BatchList) :
                   collated.labels[1][i] = BatchList[i].label[1]
        ELSE collated.labels = None

C11_Witness ==
    /\ Collated /\ collated.raised = "" /\ Len(BatchList) = 2
    /\ BatchList[1].label # None /\ BatchList[2].label = None
    /\ collated.labels = None

\* the valid records of the generator's shard, and the stream positions
\* (indices) of the records it has yielded, in order
ShardLen == Len(ShardValid(sh_w))
YieldedIndex == [j \in 1..Len(yielded) |-> yielded[j].index]
AllSlotZero == \A j \in 1..Len(evictions) : evictions[j] = 0

\* C12: with capacity 3 over a shard of 5 records r0..r4, and randint
\* returning slot 0 every time, the generator consumed to its end has yielded
\* r0, r3, r2, r1, r4, and at every moment before a prefix of that order.
C12_SlotZeroOrder ==
    (capacity = 3 /\ ShardLen = 5 /\ AllSlotZero) =>
        LET r == ShardValid(sh_w)
            order == <<r[1], r[4], r[3], r[2], r[5]>>
        IN /\ Len(yielded) <= 5
           /\ YieldedIndex = SubSeq(order, 1, Len(yielded))
           /\ sh_pc = "done" => YieldedIndex = order

C12_Witness ==
    /\ capacity = 3 /\ ShardLen = 5 /\ AllSlotZero /\ Len(evictions) = 2
    /\ sh_pc = "done" /\ YieldedIndex = <<1, 4, 3, 2, 5>>

\* C13: once every iterator of the dataset has been consumed to its end, the
\* dataset's own skip counter holds the number of rejected records of the
\* stream, with worker information and without it.
C13_DatasetCounterCountsAll ==
    AllDone => n_skipped = Cardinality(InvalidPositions)

\* the records worker w's iterator returns when it runs alone, from cursor c
\* and position p on (first: no request made yet), acc those returned so far
RECURSIVE AloneFrom(_, _, _, _, _)
AloneFrom(w, c, p, first, acc) ==
    LET step == step_of(num_workers)
        c0 == IF first THEN consume(c, start_of(w)) ELSE consume(c, step)
        p0 == IF first THEN start_of(w) + 1 ELSE p + step + 1
        r == pull_loop(c0, p0, <<>>, step)
    IN IF r.stop THEN acc
       ELSE AloneFrom(w, r.cursor, r.pos, FALSE, Append(acc, r.sequence[1]))
Alone(w) == AloneFrom(w, 0, UNINITIALIZED_POS, TRUE, <<>>)
IsPrefix(q, t) == Len(q) <= Len(t) /\ q = SubSeq(t, 1, Len(q))

\* C14: every step of the concurrently running iterators is the request of
\* one worker w; it leaves the cursor, the position and the records of every
\* other worker as they were and the dataset as it was, and whatever the
\* interleaving, what each worker has returned is a prefix of what it returns
\* when running alone, and all of it once the worker has reached the end.
C14_WorkersIndependent ==
    [][\E w \in active :
          /\ \A v \in Workers \ {w} :
                /\ cursor'[v] = cursor[v] /\ pos'[v] = pos[v]
                /\ returned'[v] = returned[v] /\ stops'[v] = stops[v]
                /\ closes'[v] = closes[v] /\ skip_log'[v] = skip_log[v]
          /\ UNCHANGED cfgVars
          /\ \A v \in Workers :
                /\ IsPrefix(returned'[v], Alone(v))
                /\ stops'[v] >= 1 => returned'[v] = Alone(v)]_vars

C14_Witness ==
    /\ sh_pc = "off" /\ fn_pc = "off" /\ num_workers >= 2
    /\ \E v \in Workers : \E w \in Workers :
          /\ v > w
          /\ stops[v] >= 1 /\ Len(returned[v]) >= 1 /\ Len(skip_log[v]) >= 1
          /\ stops[w] = 0 /\ Len(returned[w]) >= 1 /\ Len(skip_log[w]) >= 1

\* C15: collate_sequences called with zero_padding false raises for every
\* batch, the empty one and the single record included, and returns nothing:
\* no rows, no indices, no ids, no labels.
C15_NoPaddingFails ==
    (Collated /\ ~zero_padding) =>
        /\ collated.raised = "NotImplementedError"
        /\ collated.sequences = <<>> /\ collated.indices = <<>>
        /\ collated.ids = <<>> /\ collated.labels = None

C15_Witness ==
    /\ Collated /\ ~zero_padding /\ Len(BatchList) = 2
    /\ \A i \in 1..2 : BatchList[i].label # None
    /\ collated.raised = "NotImplementedError"

\* C16: the index of every record a worker w of W has returned is one plus
\* the record's zero-based place in the unsharded stream, whatever was
\* rejected before it, and it is the position counter the request left
\* behind; the first record of worker w, when valid, has index w + 1; the
\* indices of one worker increase strictly and are congruent to w + 1 modulo W.
C16_IndexIsStreamPosition ==
    \A w \in active :
        /\ \A j \in 1..Len(returned[w]) :
              LET r == returned[w][j] IN
              /\ r.index \in 1..Len(stream)
              /\ r.id = stream[r.index].id /\ r.string = stream[r.index].seq
              /\ r.index % num_workers = (w + 1) % num_workers
              /\ j > 1 => returned[w][j - 1].index < r.index
        /\ (Len(returned[w]) >= 1 /\ stops[w] = 0) =>
              returned[w][Len(returned[w])].index = pos[w]
        /\ (Len(returned[w]) >= 1 /\ ~Invalid(stream[w + 1])) =>
              returned[w][1].index = w + 1

C16_Witness ==
    /\ sh_pc = "off" /\ fn_pc = "off" /\ num_workers >= 2
    /\ Len(returned[0]) = 2 /\ stops[0] = 0
    /\ returned[0][1].index = 1 /\ returned[0][2].index = 1 + num_workers
    /\ \E w \in active :
          /\ w >= 1 /\ stops[w] = 0
          /\ Len(returned[w]) = 1 /\ Len(skip_log[w]) = 1
          /\ returned[w][1].index = w + 1 + num_workers
          /\ pos[w] = returned[w][1].index

\* the effective capacity of the run once the fill phase is over
Effective == Min(capacity, ShardLen)
Filled == sh_pc # "fill"

C18_CancelIsQuiet ==
    [][/\ sh_pc # "cancelled"
       /\ sh_pc' = "cancelled" =>
             /\ sh_pc \in {"yield", "drain"}
             /\ UNCHANGED <<itVars, cfgVars, yielded, shufbuf, buffer_size>>]_vars

C18_Witness ==
    /\ sh_pc = "cancelled" /\ item # None
    /\ Len(yielded) = 2 /\ Len(returned[sh_w]) = 5
    /\ closes[sh_w] = 0 /\ stops[sh_w] = 0

Reverse(q) == [j \in 1..Len(q) |-> q[Len(q) + 1 - j]]

\* C19: the buffer never holds more than capacity records; nothing is yielded
\* while the fill phase runs, which ends with capacity records pulled or the
\* underlying iterator exhausted; through the steady state the buffer holds
\* min(capacity, shard length) records; an iterator exhausted before the
\* buffer is full raises nothing, and the generator then yields exactly the
\* records it got.
C19_BufferWithinCapacity ==
    /\ Len(shufbuf) <= capacity
    /\ sh_pc = "fill" =>
          /\ yielded = <<>> /\ stops[sh_w] = 0
          /\ Len(shufbuf) < capacity /\ shufbuf = returned[sh_w]
    /\ (Filled /\ sh_pc # "off") =>
          (Len(returned[sh_w]) >= capacity \/ stops[sh_w] >= 1)
    /\ sh_pc \in {"steady", "yield"} =>
          /\ Len(shufbuf) = Effective
          /\ buffer_size = Effective
    /\ (Filled /\ sh_pc # "off" /\ ShardLen < capacity) =>
          /\ sh_pc # "ValueError"
          /\ evictions = <<>>
          /\ IsPrefix(yielded, Reverse(returned[sh_w]))
          /\ sh_pc = "done" => yielded = Reverse(returned[sh_w])

C19_Witness ==
    /\ sh_pc = "done" /\ capacity = 3 /\ ShardLen = 2
    /\ Len(yielded) = 2 /\ Len(skip_log[sh_w]) >= 1

\* C20: at every moment of an iteration run, and after it has ended or was
\* cancelled, the dataset's buffer_size is the value given at construction.
C20_ConfiguredCapacityKept ==
    sh_pc # "off" => buffer_size = capacity

====
